---- MODULE Spec2Model ----
(***************************************************************************)
(* QpPiecewiseJerkPathOptimizer (qp_piecewise_jerk_path_optimizer.cc):     *)
(* Init, Process and GetLateralBounds.  Lengths (s and l) are integers in  *)
(* one length unit; a std::pair<double,double> is a record [first,second]; *)
(* the vector lateral_bounds is a function on 0..size-1.                   *)
(***************************************************************************)
EXTENDS Integers, FiniteSets, Sequences, TLC

\* ---------------------------------------------------------------- bounds
MaxSpeed == 4       \* init_point.v() is in 0..MaxSpeed
MaxObstacles == 2   \* items of path_obstacles() walked by one GetLateralBounds

LVals == -2..2      \* lateral offsets of the vehicle and of obstacles
SVals == 0..3       \* stations of obstacles

Max(a, b) == IF a >= b THEN a ELSE b
Min(a, b) == IF a <= b THEN a ELSE b

\* ---------------------------------------------------------------- inputs
\* SLBoundary of an obstacle: start_s <= end_s, start_l <= end_l
SLBoundaries ==
    {b \in [start_s: SVals, end_s: SVals, start_l: LVals, end_l: LVals] :
        b.start_s <= b.end_s /\ b.start_l <= b.end_l}

\* A path obstacle.  GetLateralBounds never reads the boundary of a non-static
\* obstacle, so point boundaries stand for all of them.
PathObstacles ==
    {o \in [is_static: BOOLEAN, sl: SLBoundaries] :
        o.is_static \/ (o.sl.start_s = o.sl.end_s /\ o.sl.start_l = o.sl.end_l)}

\* The obstacles of the specification that varies the rest of the input widely:
\* those at one station from the reference line leftwards, a point or one unit wide
FewObstacles ==
    {o \in PathObstacles :
        o.sl.start_l = 0 /\ o.sl.end_l <= 1 /\ o.sl.start_s = o.sl.end_s}

\* AdcSlBoundary(): the vehicle is one unit wide or covers the whole lateral range
AdcSlBoundaries ==
    {b \in [start_s: {0}, end_s: {2, 3}, start_l: LVals, end_l: LVals] :
        b.end_l - b.start_l \in {1, 4}}

\* The vehicles of the specification that varies the obstacles widely: one unit
\* wide, at the right edge
FewAdcSlBoundaries ==
    {b \in AdcSlBoundaries : b.end_l - b.start_l = 1 /\ b.start_l = -2}

\* qp_piecewise_jerk_path_config
Configs == [lateral_buffer: {0, 1}, qp_delta_s: {1, 2},
            min_look_ahead_time: {1}, min_look_ahead_distance: {0, 7}]

FewConfigs == [lateral_buffer: {0, 1}, qp_delta_s: {1, 2},
               min_look_ahead_time: {3}, min_look_ahead_distance: {0}]

\* The station of reference_line.GetFrenetPoint(init_point)
FrenetS == {1}

\* The PathData handed to Process: empty, or holding an earlier path
PathDatas == {<<>>, <<0>>}

\* Reference lines: the left lane half-width is 2 up to station narrow_from
\* and 1 from there on; the right lane half-width is 1; the road is wider than
\* the lane by shoulder on each side.
ReferenceLines == [narrow_from: {2, 9}, shoulder: {0, 1}]

\* The reference lines that narrow within the stations
FewReferenceLines == {rl \in ReferenceLines : rl.narrow_from = 2}

GetLaneWidth(rl, s) ==
    [left  |-> IF s >= rl.narrow_from THEN 1 ELSE 2,
     right |-> 1]

GetRoadWidth(rl, s) ==
    [left  |-> GetLaneWidth(rl, s).left + rl.shoulder,
     right |-> GetLaneWidth(rl, s).right + rl.shoulder]

\* ---------------------------------------------------------------- state
VARIABLES
    is_init_,        \* QpPiecewiseJerkPathOptimizer::is_init_
    config_,         \* QpPiecewiseJerkPathOptimizer::config_
    pc,              \* "idle": no Process is running; "loop": at the head of the
                     \* loop of line 140; "body": at the end of its body;
                     \* "optimize": at line 223; "check": at line 232;
                     \* "crashed", "aborted": the process is dead
    status,          \* what the last Process returned
    path_data,       \* the caller's PathData: the stations of its frenet path
    success,         \* Process: success
    adc_sl,          \* GetLateralBounds: adc_sl
    start_s,         \* GetLateralBounds: start_s = frenet_point.s()
    path_length,     \* Process: path_length
    reference_line,  \* the reference line of this call
    lateral_bounds,  \* GetLateralBounds: lateral_bounds
    accumulated_s,   \* GetLateralBounds: accumulated_s
    k,               \* items of path_obstacles() walked so far
    n_static,        \* the static ones among them
    obstacle,        \* the item walked last
    bounds_before,   \* lateral_bounds when the last item was taken
    range,           \* <<start_iter, end_iter>> of the last item, as indexes
    l_pair,          \* <<l_lower, l_upper>> of lines 155-156 for the last item
    branch           \* the branch of the loop body the last item took

vars == <<is_init_, config_, pc, status, path_data, success, adc_sl, start_s, path_length,
          reference_line, lateral_bounds, accumulated_s, k, n_static, obstacle,
          bounds_before, range, l_pair, branch>>

call_vars == <<adc_sl, start_s, path_length, reference_line, lateral_bounds,
               accumulated_s, k, n_static, obstacle, bounds_before, range, l_pair,
               branch>>

NoObstacle == [is_static |-> FALSE,
               sl |-> [start_s |-> 0, end_s |-> 0, start_l |-> 0, end_l |-> 0]]
NoAdc == [start_s |-> 0, end_s |-> 0, start_l |-> 0, end_l |-> 0]
NoLine == [narrow_from |-> 0, shoulder |-> 0]

\* ---------------------------------------------------------------- helpers
Size(lb) == Cardinality(DOMAIN lb)

\* static_cast of a non-negative quotient of doubles: the floor
\* (truncation toward zero, d > 0)
Trunc(n, d) == IF n >= 0 THEN n \div d ELSE -((-n) \div d)

\* lines 38-45: std::min_element by .first over [b, e): the first least one;
\* for an empty range the iterator b itself
min_pair_first(lb, b, e) ==
    IF b >= e THEN b
    ELSE CHOOSE i \in b..(e - 1) :
            /\ \A j \in b..(e - 1) : lb[i].first <= lb[j].first
            /\ \A j \in b..(i - 1) : lb[j].first > lb[i].first

\* lines 47-54: std::max_element by .second over [b, e): the first greatest one
max_pair_second(lb, b, e) ==
    IF b >= e THEN b
    ELSE CHOOSE i \in b..(e - 1) :
            /\ \A j \in b..(e - 1) : lb[j].second <= lb[i].second
            /\ \A j \in b..(i - 1) : lb[j].second < lb[i].second

\* lines 56-62 with the loop running through end
assign_pair_first_ThroughEnd(lb, b, e, first) ==
    [i \in DOMAIN lb |->
        IF b <= i /\ i <= e THEN [lb[i] EXCEPT !.first = first] ELSE lb[i]]

\* lines 56-62
assign_pair_first(lb, b, e, first) ==
    [i \in DOMAIN lb |->
        IF b <= i /\ i < e THEN [lb[i] EXCEPT !.first = first] ELSE lb[i]]

\* lines 64-70
assign_pair_second(lb, b, e, second) ==
    [i \in DOMAIN lb |->
        IF b <= i /\ i < e THEN [lb[i] EXCEPT !.second = second] ELSE lb[i]]

\* line 95 with one station too many
BoundsSize_OneMore(len, delta) == Max(2, Trunc(len, delta) + 1)

\* line 95
BoundsSize(len, delta) == Max(2, Trunc(len, delta))

\* lines 96-97
BufferedAdcWidth(adc, cfg) == adc.end_l - adc.start_l + cfg.lateral_buffer

\* lines 105-126 without the widening to the road of lines 116-118
BaseBound_NoWidening(adc, rl, s) ==
    LET lane == GetLaneWidth(rl, s)
        road == GetRoadWidth(rl, s)
        adc_off_left == adc.end_l > lane.left
        adc_off_right == adc.start_l < -lane.right
    IN  IF adc_off_left \/ adc_off_right
        THEN IF adc_off_left
             THEN [first |-> -lane.right, second |-> lane.left]
             ELSE [first |-> Max(adc.start_l, -road.right), second |-> lane.left]
        ELSE [first |-> -lane.right, second |-> lane.left]

\* lines 105-126: the bounds at one station
BaseBound(adc, rl, s) ==
    LET lane == GetLaneWidth(rl, s)
        road == GetRoadWidth(rl, s)
        adc_off_left == adc.end_l > lane.left
        adc_off_right == adc.start_l < -lane.right
    IN  IF adc_off_left \/ adc_off_right
        THEN IF adc_off_left
             THEN [first |-> -lane.right, second |-> Min(adc.end_l, road.left)]
             ELSE [first |-> Max(adc.start_l, -road.right), second |-> lane.left]
        ELSE [first |-> -lane.right, second |-> lane.left]

\* lines 98-127: the vector after the first loop
BaseBounds(adc, rl, s0, delta, size) ==
    [i \in 0..(size - 1) |-> BaseBound(adc, rl, s0 + i * delta)]

\* lines 130-139: the indexes find_s_iter(s) can return.  The quotient is
\* converted to size_t: for a quotient above -1 that is its truncation; for a
\* quotient of -1 or less the conversion is undefined, and a build gives 0
\* (a saturating conversion) or a huge value (a wrapping one), which
\* std::min turns into size and the --iter into size - 1.
find_s_iter(s, s0, delta, size) ==
    LET fix(n) == IF n = size THEN size - 1 ELSE n
    IN  IF s - s0 > -delta
        THEN {fix(Min(size, Trunc(s - s0, delta)))}
        ELSE {fix(Min(size, 0)), fix(size)}

\* ---------------------------------------------------------------- actions
\* After construction: config_ holds the defaults of the configuration message,
\* which are any of cfgs
InitOver(cfgs) ==
    /\ is_init_ = FALSE
    /\ config_ \in cfgs
    /\ pc = "idle"
    /\ status = "none"
    /\ path_data = <<>>
    /\ success = FALSE
    /\ adc_sl = NoAdc
    /\ start_s = 0
    /\ path_length = 0
    /\ reference_line = NoLine
    /\ lateral_bounds = <<>>
    /\ accumulated_s = 0
    /\ k = 0
    /\ n_static = 0
    /\ obstacle = NoObstacle
    /\ bounds_before = <<>>
    /\ range = <<0, 0>>
    /\ l_pair = <<0, 0>>
    /\ branch = "none"

\* lines 77-87: Init(config).  A config without qp_piecewise_jerk_path_config
\* leaves config_ as it is.
OptimizerInit(has_config, config) ==
    /\ pc = "idle"
    /\ config_' = IF has_config THEN config ELSE config_
    /\ is_init_' = TRUE
    /\ UNCHANGED <<pc, status, path_data, success, call_vars>>

\* lines 209-212: Process before Init
ProcessNotInit ==
    /\ pc = "idle"
    /\ ~is_init_
    /\ status' = "PLANNING_ERROR: Not init."
    /\ UNCHANGED <<is_init_, config_, pc, path_data, success, call_vars>>

\* Between two calls of Process the caller hands in another PathData
NewPathData(pd) ==
    /\ pc = "idle"
    /\ path_data' = pd
    /\ UNCHANGED <<is_init_, config_, pc, status, success, call_vars>>

\* lines 216-218
PathLength(cfg, v) == Max(cfg.min_look_ahead_time * v, cfg.min_look_ahead_distance)

\* lines 213-221 and 95-127: Process up to the end of the first loop of
\* GetLateralBounds
ProcessBegin(adc, s0, v, rl, pds) ==
    /\ pc = "idle"
    /\ is_init_
    /\ path_data \in pds
    /\ LET len == PathLength(config_, v)
           size == BoundsSize(len, config_.qp_delta_s)
       IN  /\ path_length' = len
           /\ lateral_bounds' = BaseBounds(adc, rl, s0, config_.qp_delta_s, size)
           /\ accumulated_s' = s0 + size * config_.qp_delta_s
    /\ adc_sl' = adc
    /\ start_s' = s0
    /\ reference_line' = rl
    /\ k' = 0
    /\ n_static' = 0
    /\ obstacle' = NoObstacle
    /\ bounds_before' = <<>>
    /\ range' = <<0, 0>>
    /\ l_pair' = <<0, 0>>
    /\ branch' = "none"
    /\ pc' = "loop"
    /\ status' = "none"
    /\ UNCHANGED <<is_init_, config_, path_data, success>>

\* lines 149-150
InLongitudinalRange(sl, s0, acc) == ~(sl.end_s < s0 \/ sl.start_s > acc)

\* line 155
LLower(lb, b, e) == lb[max_pair_second(lb, b, e)].first

\* line 156
LUpper(lb, b, e) == lb[min_pair_first(lb, b, e)].second

\* line 158
InLateralRange(sl, lo, up) == ~(sl.start_l > up \/ sl.end_l < lo)

\* lines 163-170: an obstacle that ends before the vehicle's front
ParallelBounds(lb, b, e, sl, adc) ==
    IF sl.start_l > adc.end_l
    THEN [branch |-> "parallel_left",
          bounds |-> assign_pair_second(lb, b, e, sl.start_l)]
    ELSE [branch |-> "parallel_right",
          bounds |-> assign_pair_first(lb, b, e, sl.end_l)]

\* lines 173-199 with the right side tried before the left
GeneralPair_RightFirst(sl, lo, up, width, rl) ==
    LET left_remain == up - sl.end_l
        right_remain == -lo + sl.start_l
        road == GetRoadWidth(rl, sl.start_s)
    IN  IF right_remain > width
        THEN [branch |-> "pass_right", lo |-> lo, up |-> Min(up, sl.start_l)]
        ELSE IF left_remain > width
        THEN [branch |-> "pass_left", lo |-> Max(lo, sl.end_l), up |-> up]
        ELSE IF sl.start_l * sl.end_l < 0
        THEN [branch |-> "blocked_ref_line", lo |-> lo, up |-> up]
        ELSE IF sl.start_l >= 0
        THEN [branch |-> "bypass_right",
              lo |-> Max(sl.start_l - width, -road.right), up |-> sl.start_l]
        ELSE [branch |-> "bypass_left",
              lo |-> sl.end_l, up |-> Min(sl.end_l + width, road.left)]

\* lines 173-199: l_lower and l_upper of a general obstacle
GeneralPair(sl, lo, up, width, rl) ==
    LET left_remain == up - sl.end_l
        right_remain == -lo + sl.start_l
        road == GetRoadWidth(rl, sl.start_s)
    IN  IF left_remain > width
        THEN [branch |-> "pass_left", lo |-> Max(lo, sl.end_l), up |-> up]
        ELSE IF right_remain > width
        THEN [branch |-> "pass_right", lo |-> lo, up |-> Min(up, sl.start_l)]
        ELSE IF sl.start_l * sl.end_l < 0
        THEN [branch |-> "blocked_ref_line", lo |-> lo, up |-> up]
        ELSE IF sl.start_l >= 0
        THEN [branch |-> "bypass_right",
              lo |-> Max(sl.start_l - width, -road.right), up |-> sl.start_l]
        ELSE [branch |-> "bypass_left",
              lo |-> sl.end_l, up |-> Min(sl.end_l + width, road.left)]

\* lines 172-201
GeneralBounds(lb, b, e, sl, lo, up, width, rl) ==
    LET g == GeneralPair(sl, lo, up, width, rl)
    IN  [branch |-> g.branch,
         bounds |-> assign_pair_second(assign_pair_first(lb, b, e, g.lo), b, e, g.up)]

\* lines 153-201: the loop body for a static obstacle in longitudinal range
\* whose iterators are b <= e
ShrinkBounds(lb, b, e, sl, adc, width, rl) ==
    LET lo == LLower(lb, b, e)
        up == LUpper(lb, b, e)
    IN  IF ~InLateralRange(sl, lo, up)
        THEN [branch |-> "out_of_l_range", bounds |-> lb]
        ELSE IF sl.end_s < adc.end_s
        THEN ParallelBounds(lb, b, e, sl, adc)
        ELSE GeneralBounds(lb, b, e, sl, lo, up, width, rl)

Walked(o) ==
    /\ k' = k + 1
    /\ n_static' = IF o.is_static THEN n_static + 1 ELSE n_static
    /\ obstacle' = o
    /\ bounds_before' = lateral_bounds
    /\ UNCHANGED <<is_init_, config_, status, path_data, success, adc_sl, start_s,
                   path_length, reference_line, accumulated_s>>

\* lines 144-146: a non-static obstacle
SkipNonStatic(o) ==
    /\ pc = "loop" /\ k < MaxObstacles
    /\ ~o.is_static
    /\ Walked(o)
    /\ branch' = "not_static"
    /\ pc' = "body"
    /\ UNCHANGED <<lateral_bounds, range, l_pair>>

\* lines 148-152: a static obstacle out of longitudinal range
SkipOutOfRange(o) ==
    /\ pc = "loop" /\ k < MaxObstacles
    /\ o.is_static
    /\ ~InLongitudinalRange(o.sl, start_s, accumulated_s)
    /\ Walked(o)
    /\ branch' = "out_of_s_range"
    /\ pc' = "body"
    /\ UNCHANGED <<lateral_bounds, range, l_pair>>

\* lines 153-201: a static obstacle in longitudinal range.  With start_iter
\* beyond end_iter, std::max_element walks off the end of the vector and never
\* meets end_iter: the process dies on the first unmapped page.
ShrinkByObstacle(o) ==
    /\ pc = "loop" /\ k < MaxObstacles
    /\ o.is_static
    /\ InLongitudinalRange(o.sl, start_s, accumulated_s)
    /\ Walked(o)
    /\ \E b \in find_s_iter(o.sl.start_s, start_s, config_.qp_delta_s, Size(lateral_bounds)),
          e1 \in find_s_iter(o.sl.end_s, start_s, config_.qp_delta_s, Size(lateral_bounds)) :
          LET e == e1 + 1
          IN  /\ range' = <<b, e>>
              /\ IF b > e
                 THEN /\ pc' = "crashed"
                      /\ branch' = "crashed"
                      /\ UNCHANGED <<lateral_bounds, l_pair>>
                 ELSE LET r == ShrinkBounds(lateral_bounds, b, e, o.sl, adc_sl,
                                            BufferedAdcWidth(adc_sl, config_),
                                            reference_line)
                      IN  /\ l_pair' = <<LLower(lateral_bounds, b, e),
                                         LUpper(lateral_bounds, b, e)>>
                          /\ branch' = r.branch
                          /\ lateral_bounds' = r.bounds
                          /\ pc' = "body"

\* line 140: the body is done and the loop goes to its next item; the locals of
\* the body are gone
NextItem ==
    /\ pc = "body"
    /\ pc' = "loop"
    /\ obstacle' = NoObstacle
    /\ bounds_before' = <<>>
    /\ range' = <<0, 0>>
    /\ l_pair' = <<0, 0>>
    /\ branch' = "none"
    /\ UNCHANGED <<is_init_, config_, status, path_data, success, adc_sl, start_s,
                   path_length, reference_line, lateral_bounds, accumulated_s, k,
                   n_static>>

\* line 203: path_obstacles() has no more items
ReturnBounds ==
    /\ pc = "loop"
    /\ pc' = "optimize"
    /\ UNCHANGED <<is_init_, config_, status, path_data, success, call_vars>>

\* lines 223-227: the one call of lateral_qp_optimizer_->optimize
Optimize(ok) ==
    /\ pc = "optimize"
    /\ success' = ok
    /\ pc' = "check"
    /\ UNCHANGED <<is_init_, config_, status, path_data, call_vars>>

\* Process returns: its locals are gone
Returned ==
    /\ success' = FALSE
    /\ adc_sl' = NoAdc
    /\ start_s' = 0
    /\ path_length' = 0
    /\ reference_line' = NoLine
    /\ lateral_bounds' = <<>>
    /\ accumulated_s' = 0
    /\ k' = 0
    /\ n_static' = 0
    /\ obstacle' = NoObstacle
    /\ bounds_before' = <<>>
    /\ range' = <<0, 0>>
    /\ l_pair' = <<0, 0>>
    /\ branch' = "none"

\* lines 238-243: GetFrenetFramePath() has one point per station, with s
\* relative to the start; Process adds frenet_point.s() to each
FrenetPath(s0, delta, size) == [i \in 1..size |-> s0 + (i - 1) * delta]

\* lines 238-247: the optimizer has succeeded
ProcessSuccess ==
    /\ pc = "check"
    /\ success
    /\ path_data' = FrenetPath(start_s, config_.qp_delta_s, Size(lateral_bounds))
    /\ status' = "OK"
    /\ pc' = "idle"
    /\ Returned
    /\ UNCHANGED <<is_init_, config_>>

\* lines 232-236 with the path set before success is looked at
ProcessFailure_SetsPath(dcheck_on) ==
    /\ pc = "check"
    /\ ~success
    /\ IF dcheck_on
       THEN pc' = "aborted" /\ UNCHANGED status
       ELSE pc' = "idle" /\ status' = "PLANNING_ERROR: lateral qp optimizer failed"
    /\ path_data' = FrenetPath(start_s, config_.qp_delta_s, Size(lateral_bounds))
    /\ Returned
    /\ UNCHANGED <<is_init_, config_>>

\* lines 232-236: the optimizer has failed.  DCHECK(false) ends the process in
\* a build that keeps DCHECK, and is nothing in a build without it.
ProcessFailure(dcheck_on) ==
    /\ pc = "check"
    /\ ~success
    /\ IF dcheck_on
       THEN pc' = "aborted" /\ UNCHANGED status
       ELSE pc' = "idle" /\ status' = "PLANNING_ERROR: lateral qp optimizer failed"
    /\ Returned
    /\ UNCHANGED <<is_init_, config_, path_data>>

NextOver(cfgs, adcs, speeds, rls, pds, obstacles) ==
    \/ \E has_config \in BOOLEAN, config \in cfgs : OptimizerInit(has_config, config)
    \/ ProcessNotInit
    \/ \E pd \in pds : NewPathData(pd)
    \/ \E adc \in adcs, s0 \in FrenetS, v \in speeds, rl \in rls :
          ProcessBegin(adc, s0, v, rl, pds)
    \/ \E o \in obstacles : SkipNonStatic(o)
    \/ \E o \in obstacles : SkipOutOfRange(o)
    \/ \E o \in obstacles : ShrinkByObstacle(o)
    \/ NextItem
    \/ ReturnBounds
    \/ \E ok \in BOOLEAN : Optimize(ok)
    \/ ProcessSuccess
    \/ \E dcheck_on \in BOOLEAN : ProcessFailure(dcheck_on)

\* Every configuration, vehicle, speed and reference line; few obstacles
Init == InitOver(Configs)
Next == NextOver(Configs, AdcSlBoundaries, 0..MaxSpeed, ReferenceLines, PathDatas,
                 FewObstacles)
Spec == Init /\ [][Next]_vars

\* Every obstacle; few configurations, vehicles, speeds and reference lines
InitShrink == InitOver(FewConfigs)
NextShrink == NextOver(FewConfigs, FewAdcSlBoundaries, {1}, FewReferenceLines,
                       {<<>>}, PathObstacles)
SpecShrink == InitShrink /\ [][NextShrink]_vars

\* ---------------------------------------------------------------- claims
\* A GetLateralBounds is running or has returned its vector
HasBounds == pc \in {"loop", "body", "optimize", "check"}

N == Size(lateral_bounds)
Step == config_.qp_delta_s
Station(i) == start_s + i * Step
LaneLeft(s) == GetLaneWidth(reference_line, s).left
LaneRight(s) == GetLaneWidth(reference_line, s).right
RoadLeft(s) == GetRoadWidth(reference_line, s).left
RoadRight(s) == GetRoadWidth(reference_line, s).right

\* C6: with no static obstacle walked, the interval at every station s_i is
\* (-laneRight, laneLeft) when the vehicle is inside the lane at s_i,
\* (-laneRight, min(vehicle.end_l, roadLeft)) when vehicle.end_l > laneLeft, and
\* (max(vehicle.start_l, -roadRight), laneLeft) when the vehicle is off the
\* lane on the right only.
C6_BaseCorridor ==
    (HasBounds /\ n_static = 0) =>
        \A i \in DOMAIN lateral_bounds :
            LET s == Station(i)
                b == lateral_bounds[i]
            IN  /\ (adc_sl.end_l <= LaneLeft(s) /\ adc_sl.start_l >= -LaneRight(s))
                       => (b.first = -LaneRight(s) /\ b.second = LaneLeft(s))
                /\ adc_sl.end_l > LaneLeft(s)
                       => (b.first = -LaneRight(s)
                           /\ b.second = Min(adc_sl.end_l, RoadLeft(s)))
                /\ (adc_sl.end_l <= LaneLeft(s) /\ adc_sl.start_l < -LaneRight(s))
                       => (b.first = Max(adc_sl.start_l, -RoadRight(s))
                           /\ b.second = LaneLeft(s))

\* C6 witness: a vector returned after a non-static obstacle only, for a
\* vehicle inside the lane at station 0 and off it on the left at station 1,
\* where the road edge is what bounds it
C6_Witness ==
    /\ pc = "optimize" /\ k > 0 /\ n_static = 0
    /\ adc_sl.end_l <= LaneLeft(Station(0)) /\ adc_sl.start_l >= -LaneRight(Station(0))
    /\ adc_sl.end_l > LaneLeft(Station(1))
    /\ lateral_bounds[1].second = RoadLeft(Station(1))
    /\ lateral_bounds[1].second > LaneLeft(Station(1))

\* C7: the vector has N = max(2, floor(path_length / qp_delta_s)) intervals, at
\* indexes 0..N-1, from the first loop on and whatever obstacles are walked
C7_CorridorLength ==
    HasBounds =>
        /\ DOMAIN lateral_bounds = 0..(N - 1)
        /\ N >= 2
        /\ path_length < 2 * Step => N = 2
        /\ path_length >= 2 * Step
               => (N * Step <= path_length /\ path_length < (N + 1) * Step)

\* C7 witness: three stations for a horizon that is no multiple of the step,
\* after a static obstacle has changed the bounds
C7_Witness ==
    /\ pc = "body" /\ N = 3 /\ Step = 2 /\ N * Step < path_length
    /\ lateral_bounds # bounds_before

Errors == {"PLANNING_ERROR: Not init.", "PLANNING_ERROR: lateral qp optimizer failed"}

\* What Process does at its three ends, but for the outcome of a failed
\* optimizer: before Init it returns an error and leaves the path; after a
\* success it returns OK with the re-anchored path; the path changes in no
\* other step of a call; the optimizer is called once.
C3_Ends ==
    /\ (pc = "idle" /\ ~is_init_ /\ status' # status)
           => (status' \in Errors /\ path_data' = path_data /\ pc' = "idle")
    /\ (pc = "check" /\ success)
           => /\ pc' = "idle" /\ status' = "OK" /\ is_init_
              /\ path_data' = [i \in 1..N |-> Station(i - 1)]
              /\ path_data' # path_data
    /\ (pc # "idle" /\ path_data' # path_data) => (pc = "check" /\ success)
    /\ pc = "optimize" => pc' = "check"
    /\ pc = "check" => pc' \in {"idle", "aborted"}

\* C3 as claimed: Process writes the path if and only if Init was called and
\* the optimizer succeeded; in every other case it returns an error status as
\* a value and leaves the path as it was, without another call of the optimizer.
C3_Original ==
    [][/\ C3_Ends
       /\ (pc = "check" /\ ~success)
              => (pc' = "idle" /\ status' \in Errors /\ path_data' = path_data)]_vars

\* C3 as amended: as claimed, but after a failed optimizer the error status
\* is returned only in a build without DCHECK; a build that keeps DCHECK ends
\* the process at line 234.  The path is left as it was in both.
C3_ErrorOrAbort ==
    [][/\ C3_Ends
       /\ (pc = "check" /\ ~success)
              => /\ path_data' = path_data
                 /\ \/ pc' = "idle" /\ status' \in Errors
                    \/ pc' = "aborted"]_vars

\* C3 witness: Process has returned the optimizer's failure and the earlier
\* path is still in the PathData
C3_Witness ==
    /\ pc = "idle" /\ is_init_
    /\ status = "PLANNING_ERROR: lateral qp optimizer failed"
    /\ path_data = <<0>>

\* ------------------------------------------------- claims on one obstacle
\* The obstacle walked last, as the claims name its parts
Obs == obstacle.sl
BufferedWidth == adc_sl.end_l - adc_sl.start_l + config_.lateral_buffer

\* idx(s) = clamp(floor((s - startPoint.s) / step), 0, N - 1)
Idx(s) == Max(0, Min(N - 1, (s - start_s) \div Step))
IdxRange == Idx(Obs.start_s)..Idx(Obs.end_s)

\* The stations between the iterators the code has computed
IterRange == range[1]..(range[2] - 1)

\* The body has run for a static obstacle that passed the test of lines 149-150
InRange ==
    /\ pc = "body"
    /\ obstacle.is_static
    /\ InLongitudinalRange(Obs, start_s, accumulated_s)

\* ... and the test of line 158
Relevant == InRange /\ InLateralRange(Obs, l_pair[1], l_pair[2])

Ahead == Obs.end_s >= adc_sl.end_s
LeftRemain == l_pair[2] - Obs.end_l
RightRemain == Obs.start_l - l_pair[1]

MaxLower(lb, R) == CHOOSE m \in {lb[i].first : i \in R} : \A i \in R : lb[i].first <= m
MinUpper(lb, R) == CHOOSE m \in {lb[i].second : i \in R} : \A i \in R : m <= lb[i].second
MinLower(lb, R) == CHOOSE m \in {lb[i].first : i \in R} : \A i \in R : m <= lb[i].first
MaxUpper(lb, R) == CHOOSE m \in {lb[i].second : i \in R} : \A i \in R : lb[i].second <= m
Uniform(lb, R) == \A i, j \in R : lb[i] = lb[j]

\* The iterators and the pair of lines 153-156 are what the specification says
\* they are
RangeAsSpecified == range = <<Idx(Obs.start_s), Idx(Obs.end_s) + 1>>
PairAsSpecified ==
    l_pair = <<MaxLower(bounds_before, IdxRange), MinUpper(bounds_before, IdxRange)>>

\* C1 as claimed: every interval of the vector has lower <= upper, whatever
\* static obstacles are walked
C1_NoInvertedInterval ==
    HasBounds => \A i \in DOMAIN lateral_bounds :
                    lateral_bounds[i].first <= lateral_bounds[i].second

\* C2 as claimed: a static obstacle ahead that blocks (no side has more than
\* the buffered width left) and lies on both sides of the reference line
\* leaves every station as it was, uniform range or not.  Stated for the
\* obstacles whose iterators and (l_lower, l_upper) are as specified.
C2_BlockedLeavesUntouched ==
    (/\ Relevant /\ RangeAsSpecified /\ PairAsSpecified
     /\ Ahead
     /\ LeftRemain <= BufferedWidth /\ RightRemain <= BufferedWidth
     /\ Obs.start_l < 0 /\ 0 < Obs.end_l)
        => lateral_bounds = bounds_before

\* C4 as claimed: for a relevant static obstacle that ends before the
\* vehicle's front, every station of its index range gets its upper bound set
\* to start_l (lower bound kept) when start_l > vehicle.end_l, and else its
\* lower bound set to end_l (upper bound kept); nothing else is done for it.
C4_Alongside ==
    (Relevant /\ ~Ahead) =>
        /\ branch \in {"parallel_left", "parallel_right"}
        /\ \A i \in IdxRange :
              IF Obs.start_l > adc_sl.end_l
              THEN /\ lateral_bounds[i].second = Obs.start_l
                   /\ lateral_bounds[i].first = bounds_before[i].first
              ELSE /\ lateral_bounds[i].first = Obs.end_l
                   /\ lateral_bounds[i].second = bounds_before[i].second

\* C4 where the iterators are as specified: the code does what is claimed
C4_AlongsideWhenRangeAsSpecified ==
    (Relevant /\ ~Ahead /\ RangeAsSpecified) =>
        /\ branch \in {"parallel_left", "parallel_right"}
        /\ \A i \in IdxRange :
              IF Obs.start_l > adc_sl.end_l
              THEN /\ lateral_bounds[i].second = Obs.start_l
                   /\ lateral_bounds[i].first = bounds_before[i].first
              ELSE /\ lateral_bounds[i].first = Obs.end_l
                   /\ lateral_bounds[i].second = bounds_before[i].second

\* C5 as claimed: for a relevant static obstacle ahead the left side is tried
\* first: with leftRemain > bufferedWidth the lower bound in the range becomes
\* end_l and the upper bound is l_upper; only with leftRemain <= bufferedWidth
\* < rightRemain the upper bound in the range becomes start_l, and the lower
\* bound of each station stays what it was.  Stated for the obstacles whose
\* iterators and (l_lower, l_upper) are as specified.
C5_Original ==
    (Relevant /\ Ahead /\ RangeAsSpecified /\ PairAsSpecified) =>
        /\ LeftRemain > BufferedWidth =>
              \A i \in IterRange : /\ lateral_bounds[i].first = Obs.end_l
                                   /\ lateral_bounds[i].second = l_pair[2]
        /\ (LeftRemain <= BufferedWidth /\ RightRemain > BufferedWidth) =>
              \A i \in IterRange : /\ lateral_bounds[i].second = Obs.start_l
                                   /\ lateral_bounds[i].first = bounds_before[i].first

\* C5 as amended: as claimed, but on the right the lower bound of every
\* station in the range becomes l_lower, the lower bound line 155 has read
\* from the range; it is the station's own earlier lower bound when the
\* bounds of the range were uniform.
C5_PassSide ==
    (Relevant /\ Ahead) =>
        /\ LeftRemain > BufferedWidth =>
              \A i \in IterRange : /\ lateral_bounds[i].first = Obs.end_l
                                   /\ lateral_bounds[i].second = l_pair[2]
        /\ (LeftRemain <= BufferedWidth /\ RightRemain > BufferedWidth) =>
              \A i \in IterRange :
                 /\ lateral_bounds[i].second = Obs.start_l
                 /\ lateral_bounds[i].first = l_pair[1]
                 /\ Uniform(bounds_before, IterRange)
                        => lateral_bounds[i].first = bounds_before[i].first

\* C5 witness: an obstacle ahead with no room on its left was passed on the
\* right over two stations or more whose bounds were not uniform, and the
\* lower bound of one of them is no longer what it was
C5_Witness ==
    /\ Relevant /\ Ahead
    /\ LeftRemain <= BufferedWidth /\ RightRemain > BufferedWidth
    /\ branch = "pass_right"
    /\ range[2] - range[1] >= 2
    /\ ~Uniform(bounds_before, IterRange)
    /\ \A i \in IterRange : lateral_bounds[i].second = Obs.start_l
    /\ \E i \in IterRange : lateral_bounds[i].first # bounds_before[i].first

\* C8 as claimed: l_lower is the greatest lower bound and l_upper the least
\* upper bound of the stations in the range, uniform or not, and the obstacle
\* is skipped exactly when [start_l, end_l] does not meet [l_lower, l_upper].
\* Stated for the obstacles whose iterators are as specified.
C8_AdmissiblePair ==
    (InRange /\ RangeAsSpecified) =>
        /\ PairAsSpecified
        /\ branch = "out_of_l_range"
              <=> (\/ Obs.start_l > MinUpper(bounds_before, IdxRange)
                   \/ Obs.end_l < MaxLower(bounds_before, IdxRange))

\* C9 as claimed: a static obstacle changes station i only if it overlaps
\* [startPoint.s, s_{N-1}] and idx(start_s) <= i <= idx(end_s); the range of
\* an obstacle that starts behind startPoint.s begins at index 0 and is not
\* empty; an obstacle that starts beyond s_{N-1} changes nothing.
C9_IndexRange ==
    /\ pc # "crashed"
    /\ (pc = "body" /\ obstacle.is_static) =>
          /\ \A i \in DOMAIN lateral_bounds :
                lateral_bounds[i] # bounds_before[i]
                   => /\ Obs.end_s >= start_s /\ Obs.start_s <= Station(N - 1)
                      /\ i \in IdxRange
          /\ (InRange /\ Obs.start_s < start_s)
                => (range[1] = 0 /\ range[1] < range[2])
          /\ Obs.start_s > Station(N - 1) => lateral_bounds = bounds_before

\* C10 as claimed: no obstacle widens the corridor: after each one every
\* station has lower >= its lower before and upper <= its upper before (so
\* that the vector stays inside the one of the first loop).  Stated for the
\* obstacles whose iterators and (l_lower, l_upper) are as specified.
C10_Original ==
    (InRange /\ RangeAsSpecified /\ PairAsSpecified) =>
        \A i \in DOMAIN lateral_bounds :
            /\ lateral_bounds[i].first >= bounds_before[i].first
            /\ lateral_bounds[i].second <= bounds_before[i].second

\* C10 as amended: an obstacle changes no station outside its iterator range;
\* unless it blocks with the reference line free (the bypass of lines 184-197,
\* which sets bounds from the road edge), every station in the range ends with
\* lower >= the least lower bound and upper <= the greatest upper bound the
\* range had before, which for a range of uniform bounds is lower >= its own
\* lower and upper <= its own upper before.
C10_WithinRangeEnvelope ==
    pc = "body" =>
        /\ \A i \in DOMAIN lateral_bounds \ IterRange :
              lateral_bounds[i] = bounds_before[i]
        /\ branch \notin {"bypass_right", "bypass_left"} =>
              \A i \in DOMAIN lateral_bounds \cap IterRange :
                 /\ lateral_bounds[i].first >= MinLower(bounds_before, IterRange)
                 /\ lateral_bounds[i].second <= MaxUpper(bounds_before, IterRange)
                 /\ Uniform(bounds_before, IterRange)
                       => /\ lateral_bounds[i].first >= bounds_before[i].first
                          /\ lateral_bounds[i].second <= bounds_before[i].second

\* C10 witness: the second obstacle has narrowed both sides of no station but
\* raised the lower bound over a range of two stations or more whose bounds
\* were not uniform
C10_Witness ==
    /\ pc = "body" /\ k = 2
    /\ branch \in {"pass_left", "parallel_right"}
    /\ range[2] - range[1] >= 2
    /\ ~Uniform(bounds_before, IterRange)
    /\ \E i \in IterRange : lateral_bounds[i].first > bounds_before[i].first

====
